---- MODULE Spec2Model ----
(***************************************************************************)
(* Godown Manager (src/src/App.jsx): the stock-ledger bookkeeping of a     *)
(* feed warehouse over a hosted document store.                            *)
(*                                                                         *)
(* The store holds five collections (feeds, godownStock, trucks,           *)
(* directTransfers, logs).  Every browser session keeps a React snapshot   *)
(* of the collections, replaced as a whole by fetchAll.  The handlers of   *)
(* one render close over that render's snapshot: a handler reads `godown`  *)
(* as it was when the handler was started, also after its own writes.      *)
(* One action is one handler run to completion, its trailing fetchAll      *)
(* included; a second session is what makes a snapshot older than the      *)
(* store.                                                                  *)
(***************************************************************************)
EXTENDS Integers, Sequences, FiniteSets, TLC

\* ------------------------------------------------------------------ bounds
MaxFeeds == 2         \* feed documents ever created
MaxQty == 2           \* largest quantity typed into a form
MaxItems == 2         \* longest item list submitted
MaxStock == 3         \* largest quantity of a ledger entry, sessions on the ledger alone
MaxLedgerStock == 2   \* largest quantity of a ledger entry, with truck entries
MaxStockDocs == 2     \* godownStock documents ever created
MaxTrucks == 2        \* truck documents
MaxMovements == 1     \* truck movement documents among them
MaxLogs == 3          \* log documents
MaxTransfers == 1     \* directTransfers documents
MaxTruckStock == 2    \* largest quantity of a line of a truck's onboard stock

Sessions == {"A", "B"}
CATEGORIES == <<"Shrimp Feed", "Fish Feed Growfin", "Fish Feed Nutriva">>

VARIABLES
  feeds,            \* store: set of feed documents [id, category]
  godownStock,      \* store: sequence of [id, feedId, quantity], in document order
  trucks,           \* store: sequence of truck documents, in document order
  directTransfers,  \* store: sequence of transfer documents
  logs,             \* store: sequence of log documents
  nextFeedId,       \* next generated id of the feeds collection
  nextStockId,      \* next generated id of the godownStock collection
  snap,             \* per session: the React state [feeds, godown] set by fetchAll
  admin,            \* per session: the admin modal [open, isAdmin, pass]
  pending,          \* per session: the transfer between its reads and its writes
  last              \* the last handler that ran, Refresh aside: [op, status, items, writes]

store == <<feeds, godownStock, trucks, directTransfers, logs>>
vars == <<feeds, godownStock, trucks, directTransfers, logs, nextFeedId, nextStockId, snap, admin, pending, last>>

\* ----------------------------------------------------------------- helpers
\* Array.prototype.find and findIndex return the first match: the least of the
\* matching indices (1-based), 0 when nothing matches.
First(hits) ==
  IF hits = {} THEN 0 ELSE CHOOSE i \in hits : \A j \in hits : i <= j

\* godown.find(g => g.feedId === feedId): index in the snapshot g, 0 for undefined.
FindStock(g, feedId) == First({i \in DOMAIN g : g[i].feedId = feedId})

\* doc(db, "godownStock", id) names a document that exists.
HasDoc(docs, id) == \E i \in DOMAIN docs : docs[i].id = id

\* updateDoc(doc(db, "godownStock", id), { quantity: q }) on an existing document.
UpdateQuantity(docs, id, q) ==
  [i \in DOMAIN docs |-> IF docs[i].id = id THEN [docs[i] EXCEPT !.quantity = q] ELSE docs[i]]

\* fetchAll: the session's snapshot becomes a copy of the collections.
fetchAll(fs, g) == [feeds |-> fs, godown |-> g]

\* ------------------------------------------------------------ form inputs
TruckNumbers == {"T1", "T2"}
Quantities == 1..MaxQty

\* the quantity the + 1 and - 1 buttons of the Godown page pass
ButtonQuantities == {1}

\* the item lists a form can hold: addItem appends a (feedId, quantity) pair for
\* a feed the list does not name yet and adds to the pair of one it names, so no
\* list names a feed twice.  At most MaxItems pairs.
ItemLists(fids, qs) ==
  {l \in UNION {[1..n -> [feedId : fids, quantity : qs]] : n \in 0..MaxItems} :
     \A i, j \in DOMAIN l : l[i].feedId = l[j].feedId => i = j}

\* the feed ids a session can select: the feeds of its snapshot.
SnapFeedIds(s) == {f.id : f \in snap[s].feeds}

\* String.prototype.split(","): the segments between commas, from position i on,
\* cur being the segment read so far.
RECURSIVE SplitFrom(_, _, _)
SplitFrom(str, i, cur) ==
  IF i > Len(str) THEN <<cur>>
  ELSE IF str[i] = "," THEN <<cur>> \o SplitFrom(str, i + 1, <<>>)
  ELSE SplitFrom(str, i + 1, Append(cur, str[i]))

SplitComma(str) == SplitFrom(str, 1, <<>>)

\* String.prototype.trim, for blanks.
RECURSIVE TrimStart(_)
TrimStart(str) ==
  IF str # <<>> /\ Head(str) = " " THEN TrimStart(Tail(str)) ELSE str

RECURSIVE TrimEnd(_)
TrimEnd(str) ==
  IF str # <<>> /\ str[Len(str)] = " " THEN TrimEnd(SubSeq(str, 1, Len(str) - 1)) ELSE str

Trim(str) == TrimEnd(TrimStart(str))

\* destinations ? destinations.split(",").map(s => s.trim()).filter(Boolean) : []
ParseDestinations(text) ==
  IF text = <<>> THEN <<>>
  ELSE LET parts == SplitComma(text)
           trimmed == [i \in DOMAIN parts |-> Trim(parts[i])]
       IN SelectSeq(trimmed, LAMBDA seg : seg # <<>>)

\* --------------------------------------------------------- GODOWN helpers
\* The state a handler threads through its awaits: the godownStock collection,
\* the next generated id, whether a call has thrown, and the collections the
\* handler has written to so far, in order.
StockState(docs, nid, writes) == [docs |-> docs, nid |-> nid, status |-> "ok", writes |-> writes]

\* Faulty variant of addOrIncreaseGodown: an existing entry is set to qty
\* instead of its quantity plus qty.
addOrIncreaseOverwriting(g, st, feedId, qty) ==
  LET i == FindStock(g, feedId) IN
  IF i # 0
  THEN IF HasDoc(st.docs, g[i].id)
       THEN [st EXCEPT !.docs = UpdateQuantity(st.docs, g[i].id, qty),
                       !.writes = Append(st.writes, "godownStock")]
       ELSE [st EXCEPT !.status = "storeError"]
  ELSE [st EXCEPT !.docs = Append(st.docs, [id |-> st.nid, feedId |-> feedId, quantity |-> qty]),
                  !.nid = st.nid + 1,
                  !.writes = Append(st.writes, "godownStock")]

\* addOrIncreaseGodown(feedId, qty), reading the closed-over snapshot g.
\* updateDoc on a document that no longer exists rejects ("storeError").
\* New documents are listed after the existing ones.
addOrIncreaseGodown(g, st, feedId, qty) ==
  LET i == FindStock(g, feedId) IN
  IF i # 0
  THEN IF HasDoc(st.docs, g[i].id)
       THEN [st EXCEPT !.docs = UpdateQuantity(st.docs, g[i].id, g[i].quantity + qty),
                       !.writes = Append(st.writes, "godownStock")]
       ELSE [st EXCEPT !.status = "storeError"]
  ELSE [st EXCEPT !.docs = Append(st.docs, [id |-> st.nid, feedId |-> feedId, quantity |-> qty]),
                  !.nid = st.nid + 1,
                  !.writes = Append(st.writes, "godownStock")]

\* Faulty variant of decreaseGodown: the quantity is not compared with qty.
decreaseUnchecked(g, st, feedId, qty) ==
  LET i == FindStock(g, feedId) IN
  IF i = 0
  THEN [st EXCEPT !.status = "insufficient"]
  ELSE IF HasDoc(st.docs, g[i].id)
       THEN [st EXCEPT !.docs = UpdateQuantity(st.docs, g[i].id, g[i].quantity - qty),
                       !.writes = Append(st.writes, "godownStock")]
       ELSE [st EXCEPT !.status = "storeError"]

\* Faulty variant of decreaseGodown: too small a quantity is emptied instead
\* of refused.
decreaseClamping(g, st, feedId, qty) ==
  LET i == FindStock(g, feedId) IN
  IF i = 0
  THEN [st EXCEPT !.status = "insufficient"]
  ELSE IF HasDoc(st.docs, g[i].id)
       THEN [st EXCEPT !.docs = UpdateQuantity(st.docs, g[i].id,
                                               IF g[i].quantity < qty THEN 0 ELSE g[i].quantity - qty),
                       !.writes = Append(st.writes, "godownStock")]
       ELSE [st EXCEPT !.status = "storeError"]

\* decreaseGodown(feedId, qty), reading the closed-over snapshot g.
\* "insufficient" is the thrown Error("Not enough godown stock").
decreaseGodown(g, st, feedId, qty) ==
  LET i == FindStock(g, feedId) IN
  IF i = 0 \/ g[i].quantity < qty
  THEN [st EXCEPT !.status = "insufficient"]
  ELSE IF HasDoc(st.docs, g[i].id)
       THEN [st EXCEPT !.docs = UpdateQuantity(st.docs, g[i].id, g[i].quantity - qty),
                       !.writes = Append(st.writes, "godownStock")]
       ELSE [st EXCEPT !.status = "storeError"]

\* Faulty variant of IncomingLoop: the last item is left out.
RECURSIVE IncomingLoopButLast(_, _, _)
IncomingLoopButLast(g, st, items) ==
  IF Len(items) <= 1 THEN st
  ELSE LET r == addOrIncreaseGodown(g, st, Head(items).feedId, Head(items).quantity) IN
       IF r.status # "ok" THEN r ELSE IncomingLoopButLast(g, r, Tail(items))

\* for (const it of items) await addOrIncreaseGodown(...): the first rejection
\* leaves the loop (and the handler).
RECURSIVE IncomingLoop(_, _, _)
IncomingLoop(g, st, items) ==
  IF items = <<>> THEN st
  ELSE LET r == addOrIncreaseGodown(g, st, Head(items).feedId, Head(items).quantity) IN
       IF r.status # "ok" THEN r ELSE IncomingLoop(g, r, Tail(items))

\* Faulty variant of OutgoingLoop: the first refused item ends the loop.
RECURSIVE OutgoingLoopStopping(_, _, _, _)
OutgoingLoopStopping(g, st, items, results) ==
  IF items = <<>> THEN st @@ [results |-> results]
  ELSE LET r == decreaseGodown(g, st, Head(items).feedId, Head(items).quantity) IN
       IF r.status # "ok"
       THEN [r EXCEPT !.status = "ok"] @@ [results |-> Append(results, r.status)]
       ELSE OutgoingLoopStopping(g, r, Tail(items), Append(results, r.status))

\* for (const it of items) { try { await decreaseGodown(...) } catch { alert } }:
\* every item is tried; results lists each item's outcome.
RECURSIVE OutgoingLoop(_, _, _, _)
OutgoingLoop(g, st, items, results) ==
  IF items = <<>> THEN st @@ [results |-> results]
  ELSE LET r == decreaseGodown(g, st, Head(items).feedId, Head(items).quantity) IN
       OutgoingLoop(g, [r EXCEPT !.status = "ok"], Tail(items), Append(results, r.status))

\* what a handler leaves to observe: its outcome, each item's outcome, and the
\* collections it wrote to, in order.
Done(op, status, results, writes) ==
  [op |-> op, status |-> status, items |-> results, writes |-> writes]

\* useState(false) of adminOpen and isAdmin, useState("") of adminPass
AdminClosed == [open |-> FALSE, isAdmin |-> FALSE, pass |-> ""]

\* no transfer is between its reads and its writes
Idle ==
  [active |-> FALSE, sourceTruckNumber |-> "", destTruckNumber |-> "", items |-> <<>>,
   srcStock |-> <<>>, destStock |-> <<>>]

\* -------------------------------------------------------------- dashboard
\* the categories as a set
CategorySet == {CATEGORIES[i] : i \in DOMAIN CATEGORIES}

\* findFeed(id): feeds.find(f => f.id === id), as the set of what it can return
\* (a generated id names one document); empty for undefined.
findFeed(fs, id) == {f \in fs : f.id = id}

\* Faulty variant of CountEntry: the entry's quantity replaces the count.
CountEntryOverwriting(fs, counts, entry) ==
  LET feedDoc == findFeed(fs, entry.feedId) IN
  IF feedDoc # {} /\ (CHOOSE f \in feedDoc : TRUE).category \in CategorySet
  THEN [counts EXCEPT ![(CHOOSE f \in feedDoc : TRUE).category] = entry.quantity]
  ELSE counts

\* one turn of for (const s of godown): the entry's quantity is added to the
\* count of its feed's category when the feed is found and the category listed.
CountEntry(fs, counts, entry) ==
  LET feedDoc == findFeed(fs, entry.feedId) IN
  IF feedDoc # {} /\ (CHOOSE f \in feedDoc : TRUE).category \in CategorySet
  THEN [counts EXCEPT ![(CHOOSE f \in feedDoc : TRUE).category] = @ + entry.quantity]
  ELSE counts

RECURSIVE CountsFrom(_, _, _)
CountsFrom(fs, g, counts) ==
  IF g = <<>> THEN counts ELSE CountsFrom(fs, Tail(g), CountEntry(fs, counts, Head(g)))

\* categoryCounts, from the snapshot's feeds fs and ledger g
categoryCounts(fs, g) == CountsFrom(fs, g, [c \in CategorySet |-> 0])

\* godown.reduce((acc, s) => acc + Number(s.quantity || 0), 0), from the left
RECURSIVE Reduce(_, _)
Reduce(g, acc) == IF g = <<>> THEN acc ELSE Reduce(Tail(g), acc + Head(g).quantity)

totalBags(g) == Reduce(g, 0)

\* ------------------------------------------------------------------- Init
Init ==
  /\ feeds = {}
  /\ godownStock = <<>>
  /\ trucks = <<>>
  /\ directTransfers = <<>>
  /\ logs = <<>>
  /\ nextFeedId = 1
  /\ nextStockId = 1
  /\ snap = [s \in Sessions |-> fetchAll({}, <<>>)]
  /\ admin = [s \in Sessions |-> AdminClosed]
  /\ pending = [s \in Sessions |-> Idle]
  /\ last = Done("init", "ok", <<>>, <<>>)

\* ---------------------------------------------------------------- actions
\* the Refresh button: fetchAll alone.
Refresh(s) ==
  /\ snap' = [snap EXCEPT ![s] = fetchAll(feeds, godownStock)]
  /\ UNCHANGED <<feeds, godownStock, trucks, directTransfers, logs, nextFeedId, nextStockId, last, admin, pending>>

\* increase(feedId, qty): addOrIncreaseGodown called on its own.
Increase(s, feedId, qty) ==
  LET r == addOrIncreaseGodown(snap[s].godown, StockState(godownStock, nextStockId, <<>>), feedId, qty) IN
  /\ godownStock' = r.docs
  /\ nextStockId' = r.nid
  /\ snap' = IF r.status = "ok" THEN [snap EXCEPT ![s] = fetchAll(feeds, r.docs)] ELSE snap
  /\ last' = Done("increase", r.status, <<>>, r.writes)
  /\ UNCHANGED <<feeds, trucks, directTransfers, logs, nextFeedId, admin, pending>>

\* decrease(feedId, qty): decreaseGodown called on its own; a throw skips fetchAll.
Decrease(s, feedId, qty) ==
  LET r == decreaseGodown(snap[s].godown, StockState(godownStock, nextStockId, <<>>), feedId, qty) IN
  /\ godownStock' = r.docs
  /\ snap' = IF r.status = "ok" THEN [snap EXCEPT ![s] = fetchAll(feeds, r.docs)] ELSE snap
  /\ last' = Done("decrease", r.status, <<>>, r.writes)
  /\ UNCHANGED <<feeds, trucks, directTransfers, logs, nextFeedId, nextStockId, admin, pending>>

\* Faulty variant of handleAddFeed: the ledger entry is added whatever
\* initialQty is.
handleAddFeedAlways(s, category, initialQty) ==
  LET newFeeds == feeds \cup {[id |-> nextFeedId, category |-> category]}
      newStock == Append(godownStock, [id |-> nextStockId, feedId |-> nextFeedId, quantity |-> initialQty])
  IN
  /\ feeds' = newFeeds
  /\ nextFeedId' = nextFeedId + 1
  /\ godownStock' = newStock
  /\ nextStockId' = nextStockId + 1
  /\ snap' = [snap EXCEPT ![s] = fetchAll(newFeeds, newStock)]
  /\ last' = Done("addFeed", "ok", <<>>, <<"feeds", "godownStock">>)
  /\ UNCHANGED <<trucks, directTransfers, logs, admin, pending>>

\* handleAddFeed(feedObj, initialQty)
handleAddFeed(s, category, initialQty) ==
  LET newFeeds == feeds \cup {[id |-> nextFeedId, category |-> category]}
      newStock == IF initialQty > 0
                  THEN Append(godownStock, [id |-> nextStockId, feedId |-> nextFeedId, quantity |-> initialQty])
                  ELSE godownStock
      newNid == IF initialQty > 0 THEN nextStockId + 1 ELSE nextStockId
  IN
  /\ feeds' = newFeeds
  /\ nextFeedId' = nextFeedId + 1
  /\ godownStock' = newStock
  /\ nextStockId' = newNid
  /\ snap' = [snap EXCEPT ![s] = fetchAll(newFeeds, newStock)]
  /\ last' = Done("addFeed", "ok", <<>>, IF initialQty > 0 THEN <<"feeds", "godownStock">> ELSE <<"feeds">>)
  /\ UNCHANGED <<trucks, directTransfers, logs, admin, pending>>

\* the godownStock documents handleDeleteFeed deletes: those of the snapshot g
\* that reference the feed.
DeletedStockIds(g, feedId) == {g[i].id : i \in {j \in DOMAIN g : g[j].feedId = feedId}}

\* handleDeleteFeed(feedId)
handleDeleteFeed(s, feedId) ==
  LET newFeeds == {f \in feeds : f.id # feedId}
      gone == DeletedStockIds(snap[s].godown, feedId)
      \* deleteDoc of a document that is gone already succeeds
      newStock == SelectSeq(godownStock, LAMBDA d : d.id \notin gone)
  IN
  /\ feeds' = newFeeds
  /\ godownStock' = newStock
  /\ snap' = [snap EXCEPT ![s] = fetchAll(newFeeds, newStock)]
  /\ last' = Done("deleteFeed", "ok", <<>>, <<"feeds">> \o [i \in 1..Cardinality(gone) |-> "godownStock"])
  /\ UNCHANGED <<trucks, directTransfers, logs, nextFeedId, nextStockId, admin, pending>>

\* handleEditFeed(feedId, patch): of the patch the model keeps the category
\* (newCat || f.category).  updateDoc on a feed document that is gone rejects,
\* and fetchAll is skipped.
handleEditFeed(s, feedId, category) ==
  /\ IF \E f \in feeds : f.id = feedId
     THEN LET newFeeds == {IF f.id = feedId THEN [f EXCEPT !.category = category] ELSE f : f \in feeds} IN
          /\ feeds' = newFeeds
          /\ snap' = [snap EXCEPT ![s] = fetchAll(newFeeds, godownStock)]
          /\ last' = Done("editFeed", "ok", <<>>, <<"feeds">>)
     ELSE /\ last' = Done("editFeed", "storeError", <<>>, <<>>)
          /\ UNCHANGED <<feeds, snap>>
  /\ UNCHANGED <<godownStock, trucks, directTransfers, logs, nextFeedId, nextStockId, admin, pending>>

\* ------------------------------------------------------------ admin modal
ADMIN_PASS == "4312"

\* the Admin Panel button of the sidebar
OpenAdmin(s) ==
  /\ admin' = [admin EXCEPT ![s].open = TRUE, ![s].isAdmin = FALSE]
  /\ UNCHANGED <<store, nextFeedId, nextStockId, snap, last, pending>>

\* typing into the password field, which the modal shows while it is locked
TypePassword(s, text) ==
  /\ admin[s].open /\ ~admin[s].isAdmin
  /\ admin' = [admin EXCEPT ![s].pass = text]
  /\ UNCHANGED <<store, nextFeedId, nextStockId, snap, last, pending>>

\* the Unlock button; "wrongPassword" is alert("Wrong password")
Unlock(s) ==
  /\ admin[s].open /\ ~admin[s].isAdmin
  /\ IF admin[s].pass = ADMIN_PASS
     THEN /\ admin' = [admin EXCEPT ![s].isAdmin = TRUE, ![s].pass = ""]
          /\ last' = Done("unlock", "ok", <<>>, <<>>)
     ELSE /\ admin' = admin
          /\ last' = Done("unlock", "wrongPassword", <<>>, <<>>)
  /\ UNCHANGED <<store, nextFeedId, nextStockId, snap, pending>>

\* the Close button next to Unlock
CloseLogin(s) ==
  /\ admin[s].open /\ ~admin[s].isAdmin
  /\ admin' = [admin EXCEPT ![s].open = FALSE, ![s].pass = ""]
  /\ UNCHANGED <<store, nextFeedId, nextStockId, snap, last, pending>>

\* onClose of AdminPanel
CloseAdmin(s) ==
  /\ admin[s].open /\ admin[s].isAdmin
  /\ admin' = [admin EXCEPT ![s].open = FALSE, ![s].isAdmin = FALSE]
  /\ snap' = [snap EXCEPT ![s] = fetchAll(feeds, godownStock)]
  /\ UNCHANGED <<store, nextFeedId, nextStockId, last, pending>>

\* Faulty variant of PanelShown: AdminPanel is rendered whenever the modal is
\* open.
PanelShownUnlocked(s) == admin[s].open

\* AdminPanel, which holds the Add Feed, Edit and Delete buttons, is rendered.
PanelShown(s) == admin[s].open /\ admin[s].isAdmin

\* a document added to a collection takes the place its generated id gives it.
InsertAt(seq, p, d) == SubSeq(seq, 1, p - 1) \o <<d>> \o SubSeq(seq, p, Len(seq))

\* Faulty variant of MovementDoc: only the first item is recorded.
MovementDocFirstItem(truckNumber, type, destinations, items) ==
  [truckNumber |-> truckNumber, type |-> type, destinations |-> ParseDestinations(destinations),
   items |-> SubSeq(items, 1, 1), hasStock |-> FALSE, stock |-> <<>>]

\* the truck document submitTruckEntry adds.
MovementDoc(truckNumber, type, destinations, items) ==
  [truckNumber |-> truckNumber, type |-> type, destinations |-> ParseDestinations(destinations),
   items |-> items, hasStock |-> FALSE, stock |-> <<>>]

\* A log document.  Its other fields echo the handler's arguments and the server
\* time; nothing reads a log back, so the model keeps the action alone.
LogDoc(action) == [action |-> action]

\* the truck documents submitTruckEntry has added.
IsMovement(d) == d.type # "none"
Movements == SelectSeq(trucks, IsMovement)

\* submitTruckEntry({truckNumber, type, destinations, items}); p is the place of
\* the new truck document.
submitTruckEntry(s, truckNumber, type, destinations, items, p) ==
  IF truckNumber = "" \/ Len(items) = 0
  THEN /\ p = 1
       /\ last' = Done("recordMovement", "validation", <<>>, <<>>)
       /\ UNCHANGED <<feeds, godownStock, trucks, directTransfers, logs, nextFeedId, nextStockId, snap, admin, pending>>
  ELSE LET st == StockState(godownStock, nextStockId, <<"trucks">>)
           r == IF type = "incoming"
                THEN IncomingLoop(snap[s].godown, st, items) @@ [results |-> <<>>]
                ELSE OutgoingLoop(snap[s].godown, st, items, <<>>)
       IN
       /\ p \in 1..(Len(trucks) + 1)
       /\ trucks' = InsertAt(trucks, p, MovementDoc(truckNumber, type, destinations, items))
       /\ godownStock' = r.docs
       /\ nextStockId' = r.nid
       /\ logs' = IF r.status = "ok"
                  THEN Append(logs, LogDoc("Truck Entry"))
                  ELSE logs
       \* every increase and decrease that went through has fetched, and so
       \* does the end of the handler
       /\ snap' = IF r.status = "ok" \/ Len(r.writes) > 1
                  THEN [snap EXCEPT ![s] = fetchAll(feeds, r.docs)]
                  ELSE snap
       /\ last' = Done("recordMovement", r.status, r.results,
                        IF r.status = "ok" THEN Append(r.writes, "logs") ELSE r.writes)
       /\ UNCHANGED <<feeds, directTransfers, nextFeedId, admin, pending>>

\* --------------------------------------------------------- truck registry
\* Faulty variant of FindTruck: the first truck document, whatever its number.
FindTruckAny(ts, truckNumber) == IF ts = <<>> THEN 0 ELSE 1

\* query(collection(db, "trucks"), where("truckNumber", "==", tn)) and docs[0]:
\* the index of the first truck document with the number, 0 when the query is empty.
FindTruck(ts, truckNumber) == First({i \in DOMAIN ts : ts[i].truckNumber = truckNumber})

\* stock.findIndex(s => s.feedId === feedId), 1-based; 0 for -1.
FindLine(stock, feedId) == First({i \in DOMAIN stock : stock[i].feedId = feedId})

\* the truck document addDoc makes of { truckNumber, stock, createdAt }
RegistryDoc(truckNumber, stock) ==
  [truckNumber |-> truckNumber, type |-> "none", destinations |-> <<>>, items |-> <<>>,
   hasStock |-> TRUE, stock |-> stock]

\* Array.isArray(data.stock) ? data.stock : []
StockOf(d) == IF d.hasStock THEN d.stock ELSE <<>>

\* Faulty variant of SetStock: the new lines are put after the lines the
\* document has instead of in their place.
SetStockMerging(d, stock) == [d EXCEPT !.hasStock = TRUE, !.stock = StockOf(d) \o stock]

\* Faulty variant of SetStock: the document is written anew (as setDoc would),
\* its other fields lost.
SetStockReplacing(d, stock) == RegistryDoc(d.truckNumber, stock)

\* updateDoc(doc(db, "trucks", id), { stock, ... }): the other fields stay.
SetStock(d, stock) == [d EXCEPT !.hasStock = TRUE, !.stock = stock]

\* Faulty variant of registerSourceTruckLoad: the load is taken out of the
\* warehouse ledger.
registerFromGodown(s, truckNumber, items, p) ==
  IF truckNumber = "" \/ Len(items) = 0
  THEN /\ p = 1
       /\ last' = Done("registerLoad", "validation", <<>>, <<>>)
       /\ UNCHANGED <<feeds, godownStock, trucks, directTransfers, logs, nextFeedId, nextStockId, snap, admin, pending>>
  ELSE LET i == FindTruck(trucks, truckNumber)
           r == OutgoingLoop(snap[s].godown, StockState(godownStock, nextStockId, <<>>), items, <<>>)
       IN
       /\ IF i # 0
          THEN p = 1 /\ trucks' = [trucks EXCEPT ![i] = SetStock(@, items)]
          ELSE p \in 1..(Len(trucks) + 1) /\ trucks' = InsertAt(trucks, p, RegistryDoc(truckNumber, items))
       /\ godownStock' = r.docs
       /\ logs' = Append(logs, LogDoc("Register Truck Load"))
       /\ snap' = [snap EXCEPT ![s] = fetchAll(feeds, r.docs)]
       /\ last' = Done("registerLoad", "ok", <<>>, <<"trucks", "logs">>)
       /\ UNCHANGED <<feeds, directTransfers, nextFeedId, nextStockId, admin, pending>>

\* Faulty variant of registerSourceTruckLoad: the arguments are not validated.
registerUnvalidated(s, truckNumber, items, p) ==
  LET i == FindTruck(trucks, truckNumber) IN
  /\ IF i # 0
     THEN p = 1 /\ trucks' = [trucks EXCEPT ![i] = SetStock(@, items)]
     ELSE p \in 1..(Len(trucks) + 1) /\ trucks' = InsertAt(trucks, p, RegistryDoc(truckNumber, items))
  /\ logs' = Append(logs, LogDoc("Register Truck Load"))
  /\ snap' = [snap EXCEPT ![s] = fetchAll(feeds, godownStock)]
  /\ last' = Done("registerLoad", "ok", <<>>, <<"trucks", "logs">>)
  /\ UNCHANGED <<feeds, godownStock, directTransfers, nextFeedId, nextStockId, admin, pending>>

\* registerSourceTruckLoad(truckNumber, items); p is the place of a new document.
registerSourceTruckLoad(s, truckNumber, items, p) ==
  IF truckNumber = "" \/ Len(items) = 0
  THEN /\ p = 1
       /\ last' = Done("registerLoad", "validation", <<>>, <<>>)
       /\ UNCHANGED <<feeds, godownStock, trucks, directTransfers, logs, nextFeedId, nextStockId, snap, admin, pending>>
  ELSE LET i == FindTruck(trucks, truckNumber) IN
       /\ IF i # 0
          THEN p = 1 /\ trucks' = [trucks EXCEPT ![i] = SetStock(@, items)]
          ELSE p \in 1..(Len(trucks) + 1) /\ trucks' = InsertAt(trucks, p, RegistryDoc(truckNumber, items))
       /\ logs' = Append(logs, LogDoc("Register Truck Load"))
       /\ snap' = [snap EXCEPT ![s] = fetchAll(feeds, godownStock)]
       /\ last' = Done("registerLoad", "ok", <<>>, <<"trucks", "logs">>)
       /\ UNCHANGED <<feeds, godownStock, directTransfers, nextFeedId, nextStockId, admin, pending>>

\* Faulty variant of AddLine: a line the destination has is set to the item's
\* quantity instead of raised by it.
AddLineOverwriting(destStock, item) ==
  LET dIdx == FindLine(destStock, item.feedId) IN
  IF dIdx # 0
  THEN [destStock EXCEPT ![dIdx].quantity = item.quantity]
  ELSE Append(destStock, [feedId |-> item.feedId, quantity |-> item.quantity])

\* the addition of an item to the destination's working copy
AddLine(destStock, item) ==
  LET dIdx == FindLine(destStock, item.feedId) IN
  IF dIdx # 0
  THEN [destStock EXCEPT ![dIdx].quantity = @ + item.quantity]
  ELSE Append(destStock, [feedId |-> item.feedId, quantity |-> item.quantity])

\* Faulty variant of TransferItem: an item of one bag more than the source
\* holds is let through.
TransferItemOneOver(w, item) ==
  LET sIdx == FindLine(w.src, item.feedId) IN
  IF sIdx = 0 \/ w.src[sIdx].quantity + 1 < item.quantity
  THEN [w EXCEPT !.status = "insufficient", !.named = <<item.feedId>>]
  ELSE [w EXCEPT !.src[sIdx].quantity = @ - item.quantity,
                 !.dest = AddLine(w.dest, item)]

\* Faulty variant of TransferItem: the source's quantity is not compared with
\* the item's.
TransferItemUnchecked(w, item) ==
  LET sIdx == FindLine(w.src, item.feedId) IN
  IF sIdx = 0
  THEN [w EXCEPT !.status = "insufficient", !.named = <<item.feedId>>]
  ELSE [w EXCEPT !.src[sIdx].quantity = @ - item.quantity,
                 !.dest = AddLine(w.dest, item)]

\* Faulty variant of TransferItem: the item is not taken from the source's
\* working copy, so that every item is compared with the stock as read.
TransferItemNoDeduct(w, item) ==
  LET sIdx == FindLine(w.src, item.feedId) IN
  IF sIdx = 0 \/ w.src[sIdx].quantity < item.quantity
  THEN [w EXCEPT !.status = "insufficient", !.named = <<item.feedId>>]
  ELSE [w EXCEPT !.dest = AddLine(w.dest, item)]

\* one turn of the loop over the items, on the working copies
\* w = [src, dest, status, named]; named is the feed the alert names.
TransferItem(w, item) ==
  LET sIdx == FindLine(w.src, item.feedId) IN
  IF sIdx = 0 \/ w.src[sIdx].quantity < item.quantity
  THEN [w EXCEPT !.status = "insufficient", !.named = <<item.feedId>>]
  ELSE [w EXCEPT !.src[sIdx].quantity = @ - item.quantity,
                 !.dest = AddLine(w.dest, item)]

\* for (const item of items) { ... }: the first item the source lacks returns.
RECURSIVE TransferLoop(_, _)
TransferLoop(w, items) ==
  IF items = <<>> THEN w
  ELSE LET r == TransferItem(w, Head(items)) IN
       IF r.status # "ok" THEN r ELSE TransferLoop(r, Tail(items))

\* the directTransfers document
TransferDoc(sourceTruckNumber, destTruckNumber, items) ==
  [sourceTruckNumber |-> sourceTruckNumber, destTruckNumber |-> destTruckNumber, items |-> items]

\* transferFromSourceToDest({sourceTruckNumber, destTruckNumber, items}); p is
\* the place of the destination's document when the handler creates it.
transferFromSourceToDest(s, sourceTruckNumber, destTruckNumber, items, p) ==
  IF sourceTruckNumber = "" \/ destTruckNumber = "" \/ Len(items) = 0
  THEN /\ p = 1
       /\ last' = Done("transfer", "validation", <<>>, <<>>)
       /\ UNCHANGED <<feeds, godownStock, trucks, directTransfers, logs, nextFeedId, nextStockId, snap, admin, pending>>
  ELSE IF FindTruck(trucks, sourceTruckNumber) = 0
  THEN /\ p = 1
       /\ last' = Done("transfer", "notFound", <<>>, <<>>)
       /\ UNCHANGED <<feeds, godownStock, trucks, directTransfers, logs, nextFeedId, nextStockId, snap, admin, pending>>
  ELSE LET created == FindTruck(trucks, destTruckNumber) = 0
           found == IF created THEN InsertAt(trucks, p, RegistryDoc(destTruckNumber, <<>>)) ELSE trucks
           si == FindTruck(found, sourceTruckNumber)
           di == FindTruck(found, destTruckNumber)
           w == TransferLoop([src |-> StockOf(found[si]), dest |-> StockOf(found[di]),
                              status |-> "ok", named |-> <<>>], items)
           srcSaved == [found EXCEPT ![si] = SetStock(@, w.src)]
           destSaved == [srcSaved EXCEPT ![di] = SetStock(@, w.dest)]
           first == IF created THEN <<"trucks">> ELSE <<>>
       IN
       /\ IF created THEN p \in 1..(Len(trucks) + 1) ELSE p = 1
       /\ IF w.status = "ok"
          THEN /\ trucks' = destSaved
               /\ directTransfers' = Append(directTransfers, TransferDoc(sourceTruckNumber, destTruckNumber, items))
               /\ logs' = Append(logs, LogDoc("Direct Transfer"))
               /\ snap' = [snap EXCEPT ![s] = fetchAll(feeds, godownStock)]
               /\ last' = Done("transfer", "ok", <<>>, first \o <<"trucks", "trucks", "directTransfers", "logs">>)
          ELSE /\ trucks' = found
               /\ last' = Done("transfer", w.status, w.named, first)
               /\ UNCHANGED <<directTransfers, logs, snap>>
       /\ UNCHANGED <<feeds, godownStock, nextFeedId, nextStockId, admin, pending>>

\* ------------------------------------------- a transfer, await by await
\* transferFromSourceToDest up to the end of its loop, for a destination that
\* has a document: the two getDocs and the loop over the working copies.  The
\* session then holds srcStock and destStock as the loop left them.
TransferRead(s, sourceTruckNumber, destTruckNumber, items) ==
  LET si == FindTruck(trucks, sourceTruckNumber)
      di == FindTruck(trucks, destTruckNumber)
      w == TransferLoop([src |-> StockOf(trucks[si]), dest |-> StockOf(trucks[di]),
                         status |-> "ok", named |-> <<>>], items)
  IN
  /\ ~pending[s].active
  /\ sourceTruckNumber # "" /\ destTruckNumber # "" /\ Len(items) # 0
  /\ si # 0 /\ di # 0
  /\ IF w.status = "ok"
     THEN /\ pending' = [pending EXCEPT ![s] =
                           [active |-> TRUE, sourceTruckNumber |-> sourceTruckNumber,
                            destTruckNumber |-> destTruckNumber, items |-> items,
                            srcStock |-> w.src, destStock |-> w.dest]]
          /\ UNCHANGED last
     ELSE /\ last' = Done("transfer", w.status, w.named, <<>>)
          /\ UNCHANGED pending
  /\ UNCHANGED <<store, nextFeedId, nextStockId, snap, admin>>

\* Faulty variant of TransferWrite: the loop is run again on the stock the
\* documents hold when the writes are made.
TransferWriteRereading(s) ==
  LET t == pending[s]
      si == FindTruck(trucks, t.sourceTruckNumber)
      di == FindTruck(trucks, t.destTruckNumber)
      w == TransferLoop([src |-> StockOf(trucks[si]), dest |-> StockOf(trucks[di]),
                         status |-> "ok", named |-> <<>>], t.items)
      srcSaved == [trucks EXCEPT ![si] = SetStock(@, w.src)]
  IN
  /\ t.active
  /\ trucks' = [srcSaved EXCEPT ![di] = SetStock(@, w.dest)]
  /\ directTransfers' = Append(directTransfers, TransferDoc(t.sourceTruckNumber, t.destTruckNumber, t.items))
  /\ logs' = Append(logs, LogDoc("Direct Transfer"))
  /\ snap' = [snap EXCEPT ![s] = fetchAll(feeds, godownStock)]
  /\ pending' = [pending EXCEPT ![s] = Idle]
  /\ last' = Done("transfer", "ok", <<>>, <<"trucks", "trucks", "directTransfers", "logs">>)
  /\ UNCHANGED <<feeds, godownStock, nextFeedId, nextStockId, admin>>

\* Faulty variant of TransferWrite: the transfer's document takes the place of
\* the documents directTransfers holds.
TransferWriteReplacing(s) ==
  LET t == pending[s]
      si == FindTruck(trucks, t.sourceTruckNumber)
      di == FindTruck(trucks, t.destTruckNumber)
      srcSaved == [trucks EXCEPT ![si] = SetStock(@, t.srcStock)]
  IN
  /\ t.active
  /\ trucks' = [srcSaved EXCEPT ![di] = SetStock(@, t.destStock)]
  /\ directTransfers' = <<TransferDoc(t.sourceTruckNumber, t.destTruckNumber, t.items)>>
  /\ logs' = Append(logs, LogDoc("Direct Transfer"))
  /\ snap' = [snap EXCEPT ![s] = fetchAll(feeds, godownStock)]
  /\ pending' = [pending EXCEPT ![s] = Idle]
  /\ last' = Done("transfer", "ok", <<>>, <<"trucks", "trucks", "directTransfers", "logs">>)
  /\ UNCHANGED <<feeds, godownStock, nextFeedId, nextStockId, admin>>

\* the rest of transferFromSourceToDest: the two updateDoc, the two addDoc and
\* fetchAll.  The documents are those read (srcData.id, destData.id); no truck
\* document is deleted and, where this step is taken, a number names one
\* document, found again by its number.
TransferWrite(s) ==
  LET t == pending[s]
      si == FindTruck(trucks, t.sourceTruckNumber)
      di == FindTruck(trucks, t.destTruckNumber)
      srcSaved == [trucks EXCEPT ![si] = SetStock(@, t.srcStock)]
  IN
  /\ t.active
  /\ trucks' = [srcSaved EXCEPT ![di] = SetStock(@, t.destStock)]
  /\ directTransfers' = Append(directTransfers, TransferDoc(t.sourceTruckNumber, t.destTruckNumber, t.items))
  /\ logs' = Append(logs, LogDoc("Direct Transfer"))
  /\ snap' = [snap EXCEPT ![s] = fetchAll(feeds, godownStock)]
  /\ pending' = [pending EXCEPT ![s] = Idle]
  /\ last' = Done("transfer", "ok", <<>>, <<"trucks", "trucks", "directTransfers", "logs">>)
  /\ UNCHANGED <<feeds, godownStock, nextFeedId, nextStockId, admin>>

\* ------------------------------------------------ rejected store writes
\* A call of the store can reject (no connection, no permission): the
\* handlers have no try/catch around their writes and use no batch or
\* transaction, so the rejection leaves the handler where it is, after the
\* writes already made and before fetchAll.

\* handleAddFeed where the addDoc after k writes rejects: k = 0, the feed's; k = 1,
\* the ledger entry's.
handleAddFeedFailing(s, category, initialQty, k) ==
  /\ k \in 0..(IF initialQty > 0 THEN 1 ELSE 0)
  /\ feeds' = IF k = 0 THEN feeds ELSE feeds \cup {[id |-> nextFeedId, category |-> category]}
  /\ nextFeedId' = IF k = 0 THEN nextFeedId ELSE nextFeedId + 1
  /\ last' = Done("addFeed", "storeError", <<>>, SubSeq(<<"feeds">>, 1, k))
  /\ UNCHANGED <<godownStock, trucks, directTransfers, logs, nextStockId, snap, admin, pending>>

\* Faulty variant of TransferWriteFailing: the writes made are undone.
TransferWriteRollingBack(s, k) ==
  /\ pending[s].active
  /\ k \in 0..3
  /\ pending' = [pending EXCEPT ![s] = Idle]
  /\ last' = Done("transfer", "storeError", <<>>, SubSeq(<<"trucks", "trucks", "directTransfers">>, 1, k))
  /\ UNCHANGED <<store, nextFeedId, nextStockId, snap, admin>>

\* the writes of transferFromSourceToDest where the call after k writes
\* rejects: k = 1 is the destination's updateDoc after the source's.
TransferWriteFailing(s, k) ==
  LET t == pending[s]
      si == FindTruck(trucks, t.sourceTruckNumber)
      di == FindTruck(trucks, t.destTruckNumber)
      srcSaved == [trucks EXCEPT ![si] = SetStock(@, t.srcStock)]
      destSaved == [srcSaved EXCEPT ![di] = SetStock(@, t.destStock)]
  IN
  /\ t.active
  /\ k \in 0..3
  /\ trucks' = IF k = 0 THEN trucks ELSE IF k = 1 THEN srcSaved ELSE destSaved
  /\ directTransfers' = IF k = 3
                        THEN Append(directTransfers, TransferDoc(t.sourceTruckNumber, t.destTruckNumber, t.items))
                        ELSE directTransfers
  /\ pending' = [pending EXCEPT ![s] = Idle]
  /\ last' = Done("transfer", "storeError", <<>>, SubSeq(<<"trucks", "trucks", "directTransfers">>, 1, k))
  /\ UNCHANGED <<feeds, godownStock, logs, nextFeedId, nextStockId, snap, admin>>

\* ------------------------------------------------------------------- Next
\* the text typed into the destinations field of a truck entry, as a sequence
\* of characters
DestinationText == <<" ", "K", ",", " ", ",", "V">>

\* the bounds of a run: documents created, and the largest ledger quantity
Bounded(maxStock) ==
  /\ nextFeedId <= MaxFeeds + 1
  /\ nextStockId <= MaxStockDocs + 1
  /\ \A i \in DOMAIN godownStock : godownStock[i].quantity <= maxStock
  /\ Len(trucks) <= MaxTrucks
  /\ Len(Movements) <= MaxMovements
  /\ Len(logs) <= MaxLogs
  /\ Len(directTransfers) <= MaxTransfers
  /\ \A i \in DOMAIN trucks : \A j \in DOMAIN trucks[i].stock :
       trucks[i].stock[j].quantity <= MaxTruckStock

\* the steps of session s on the ledger alone, with feeds of the categories cats
\* and the quantities bqs for increase and decrease.
\* The admin modal is left out here (SpecAdmin has it): the catalogue handlers
\* are taken as reached through it.
GodownStep(s, cats, bqs, maxStock) ==
  \/ Refresh(s)
  \/ \E f \in SnapFeedIds(s), q \in bqs : Increase(s, f, q) /\ Bounded(maxStock)'
  \/ \E f \in SnapFeedIds(s), q \in bqs : Decrease(s, f, q)
  \/ \E c \in cats, q \in 0..MaxQty : handleAddFeed(s, c, q) /\ Bounded(maxStock)'
  \/ \E f \in SnapFeedIds(s) : handleDeleteFeed(s, f)

\* a truck entry of session s, for the truck numbers tns, the types tys, the
\* destination texts dests and the quantities qs.
MovementStep(s, tns, tys, dests, qs, maxStock) ==
  /\ Len(trucks) < MaxTrucks /\ Len(Movements) < MaxMovements /\ Len(logs) < MaxLogs
  /\ \E tn \in tns, ty \in tys, d \in dests,
        items \in ItemLists(SnapFeedIds(s), qs), p \in 1..(Len(trucks) + 1) :
       submitTruckEntry(s, tn, ty, d, items, p) /\ Bounded(maxStock)'

\* Two sessions on the ledger, no trucks.
NextGodown == \E s \in Sessions : GodownStep(s, {CATEGORIES[1]}, ButtonQuantities, MaxStock)

SpecGodown == Init /\ [][NextGodown]_vars

\* Two sessions on the ledger, with truck entries; the +1 and -1 buttons of the
\* Godown page move one bag.
NextLedger ==
  \E s \in Sessions :
    \/ GodownStep(s, {CATEGORIES[1]}, ButtonQuantities, MaxLedgerStock)
    \/ MovementStep(s, {"T1"}, {"incoming", "outgoing"}, {DestinationText}, Quantities, MaxLedgerStock)

SpecLedger == Init /\ [][NextLedger]_vars

\* the Direct Transfer page of session s, for the truck numbers tns
TrucksStep(s, tns) ==
  \/ /\ Len(logs) < MaxLogs
     /\ \E items \in ItemLists(SnapFeedIds(s), Quantities), tn \in tns, p \in 1..(Len(trucks) + 1) :
          registerSourceTruckLoad(s, tn, items, p) /\ Bounded(0)'
  \/ /\ Len(logs) < MaxLogs
     /\ \E items \in ItemLists(SnapFeedIds(s), Quantities), src \in tns, dst \in tns,
          p \in 1..(Len(trucks) + 1) :
         transferFromSourceToDest(s, src, dst, items, p) /\ Bounded(0)'

\* One session on the truck registry (its handlers query the store, not the
\* snapshot): feeds without warehouse stock, loads and transfers.
RegistrySessions == {"A"}

NextTrucks ==
  \E s \in RegistrySessions :
    \/ Refresh(s)
    \/ handleAddFeed(s, CATEGORIES[1], 0) /\ Bounded(0)'
    \/ TrucksStep(s, TruckNumbers)

SpecTrucks == Init /\ [][NextTrucks]_vars

\* The transfer handler as a function of its arguments: any item array, also one
\* naming a feed twice (which the form does not build), on a registry where
\* truck T1 has been loaded.
CallLists == UNION {[1..n -> [feedId : 1..MaxFeeds, quantity : Quantities]] : n \in 1..MaxItems}

\* two feeds added, then a load registered for T1
InitCall ==
  /\ feeds = {[id |-> f, category |-> CATEGORIES[1]] : f \in 1..MaxFeeds}
  /\ godownStock = <<>>
  /\ trucks \in {<<RegistryDoc("T1", st)>> : st \in ItemLists(1..MaxFeeds, Quantities) \ {<<>>}}
  /\ directTransfers = <<>>
  /\ logs = <<LogDoc("Register Truck Load")>>
  /\ nextFeedId = MaxFeeds + 1
  /\ nextStockId = 1
  /\ snap = [s \in Sessions |-> fetchAll(feeds, godownStock)]
  /\ admin = [s \in Sessions |-> AdminClosed]
  /\ pending = [s \in Sessions |-> Idle]
  /\ last = Done("registerLoad", "ok", <<>>, <<"trucks", "logs">>)

NextCall ==
  /\ Len(logs) < MaxLogs
  /\ \E s \in RegistrySessions, items \in CallLists, dst \in TruckNumbers, p \in 1..(Len(trucks) + 1) :
       transferFromSourceToDest(s, "T1", dst, items, p) /\ Bounded(0)'

SpecTransferCall == InitCall /\ [][NextCall]_vars

\* what a truck-number field can hold when a form is submitted: nothing, or a
\* number
NumberFields == {"", "T1"}

\* One session submitting the three forms, also with a field left empty or no
\* item added: truck entries, loads and transfers of one bag a line.
NextForms ==
  \E s \in RegistrySessions :
    \/ Refresh(s)
    \/ handleAddFeed(s, CATEGORIES[1], 0) /\ Bounded(MaxLedgerStock)'
    \/ MovementStep(s, NumberFields, {"incoming", "outgoing"}, {DestinationText}, ButtonQuantities, MaxLedgerStock)
    \/ /\ Len(logs) < MaxLogs
       /\ \E items \in ItemLists(SnapFeedIds(s), ButtonQuantities), tn \in NumberFields,
             p \in 1..(Len(trucks) + 1) :
            registerSourceTruckLoad(s, tn, items, p) /\ Bounded(MaxLedgerStock)'
    \/ /\ Len(logs) < MaxLogs
       /\ \E items \in ItemLists(SnapFeedIds(s), ButtonQuantities), src \in NumberFields,
             dst \in NumberFields, p \in 1..(Len(trucks) + 1) :
            transferFromSourceToDest(s, src, dst, items, p) /\ Bounded(MaxLedgerStock)'

SpecForms == Init /\ [][NextForms]_vars

\* what is typed into the password field
PasswordTexts == {"", "431", "4312"}

\* Number(initialQty || 0) of what is typed into the Initial Qty field
InitialQuantities == -1..1

\* what is answered to the Edit button's "New category" prompt
EditCategories == {CATEGORIES[2], "Poultry Feed"}

\* the admin modal of session s and the catalogue handlers behind it
AdminStep(s) ==
  \/ OpenAdmin(s)
  \/ \E text \in PasswordTexts : TypePassword(s, text)
  \/ Unlock(s)
  \/ CloseLogin(s)
  \/ CloseAdmin(s)
  \/ PanelShown(s) /\ \E q \in InitialQuantities : handleAddFeed(s, CATEGORIES[1], q) /\ Bounded(MaxLedgerStock)'
  \/ PanelShown(s) /\ \E f \in SnapFeedIds(s), c \in EditCategories : handleEditFeed(s, f, c)
  \/ PanelShown(s) /\ \E f \in SnapFeedIds(s) : handleDeleteFeed(s, f)

\* Two sessions at the admin modal.
NextAdmin == \E s \in Sessions : AdminStep(s)

SpecAdmin == Init /\ [][NextAdmin]_vars

\* truck entries and transfers of a run of two sessions side by side
MaxRaceDocs == 2

\* one bag of the feed
OneBag == <<[feedId |-> 1, quantity |-> 1]>>

\* a feed added with one bag, loads registered for T1 and T2, and both sessions
\* loaded since
InitRace ==
  /\ feeds = {[id |-> 1, category |-> CATEGORIES[1]]}
  /\ godownStock = <<[id |-> 1, feedId |-> 1, quantity |-> 1]>>
  /\ trucks = <<RegistryDoc("T1", <<[feedId |-> 1, quantity |-> 2]>>), RegistryDoc("T2", OneBag)>>
  /\ directTransfers = <<>>
  /\ logs = <<LogDoc("Register Truck Load"), LogDoc("Register Truck Load")>>
  /\ nextFeedId = 2
  /\ nextStockId = 2
  /\ snap = [s \in Sessions |-> fetchAll(feeds, godownStock)]
  /\ admin = [s \in Sessions |-> AdminClosed]
  /\ pending = [s \in Sessions |-> Idle]
  /\ last = Done("registerLoad", "ok", <<>>, <<"trucks", "logs">>)

\* the transfers written or about to be
TransfersBegun == Len(directTransfers) + Cardinality({s \in Sessions : pending[s].active})

\* Two sessions side by side: incoming truck entries of one bag, and transfers
\* of one bag from T1 to T2 taken await by await.
NextRace ==
  \E s \in Sessions :
    \/ Refresh(s)
    \/ /\ Len(Movements) < MaxRaceDocs
       /\ \E p \in 1..(Len(trucks) + 1) : submitTruckEntry(s, "M1", "incoming", <<>>, OneBag, p)
    \/ TransfersBegun < MaxRaceDocs /\ TransferRead(s, "T1", "T2", OneBag)
    \/ TransferWrite(s)

SpecRace == InitRace /\ [][NextRace]_vars

\* One session over a store whose calls can reject, from the store of InitRace:
\* feeds added, and transfers of one bag from one of T1 and T2 to the other taken
\* await by await.
FaultsStep(s) ==
  \/ Refresh(s)
  \/ nextFeedId <= MaxFeeds /\ \E q \in 0..1 : handleAddFeed(s, CATEGORIES[1], q)
  \/ nextFeedId <= MaxFeeds /\ \E q \in 0..1, k \in 0..1 : handleAddFeedFailing(s, CATEGORIES[1], q, k)
  \/ /\ TransfersBegun < MaxRaceDocs
     /\ \E src \in TruckNumbers, dst \in TruckNumbers : src # dst /\ TransferRead(s, src, dst, OneBag)
  \/ TransferWrite(s)
  \/ \E k \in 0..3 : TransferWriteFailing(s, k)

NextFaults == \E s \in RegistrySessions : FaultsStep(s)

SpecFaults == InitRace /\ [][NextFaults]_vars

\* Two sessions filling the ledger: feeds added, with a bag or without, bags
\* added with the + 1 button, feeds deleted, and the Edit button to move a feed
\* to another category, listed or not.
NextDashboard ==
  \E s \in Sessions :
    \/ Refresh(s)
    \/ \E f \in SnapFeedIds(s), q \in ButtonQuantities : Increase(s, f, q) /\ Bounded(MaxLedgerStock)'
    \/ \E q \in 0..1 : handleAddFeed(s, CATEGORIES[1], q) /\ Bounded(MaxLedgerStock)'
    \/ \E f \in SnapFeedIds(s) : handleDeleteFeed(s, f)
    \/ \E f \in SnapFeedIds(s), c \in EditCategories : handleEditFeed(s, f, c)

SpecDashboard == Init /\ [][NextDashboard]_vars

\* One session writing the audit collections, from the store of InitRace: the
\* steps of FaultsStep, a load for T1 or T2, and a truck entry of one bag.
NextAudit ==
  \E s \in RegistrySessions :
    \/ FaultsStep(s)
    \/ /\ Len(logs) < MaxLogs
       /\ \E items \in ItemLists(SnapFeedIds(s), ButtonQuantities), tn \in TruckNumbers,
             p \in 1..(Len(trucks) + 1) :
            registerSourceTruckLoad(s, tn, items, p)
    \/ /\ Len(logs) < MaxLogs /\ Len(Movements) < MaxMovements
       /\ \E ty \in {"incoming", "outgoing"}, p \in 1..(Len(trucks) + 1) :
            submitTruckEntry(s, "M1", ty, <<>>, OneBag, p)

SpecAudit == InitRace /\ [][NextAudit]_vars

\* ================================================================= claims
FeedIds == 1..MaxFeeds

\* the quantity the warehouse shows for a feed: that of the first entry, else 0
\* (the Godown page: s ? s.quantity : 0).
QtyOf(docs, feedId) ==
  LET i == FindStock(docs, feedId) IN IF i = 0 THEN 0 ELSE docs[i].quantity

\* the session's snapshot of the ledger is what the store holds.
SnapCurrent(s) == snap[s].godown = godownStock

\* C1: in every reachable state, whatever the sessions' interleaving of increase,
\* decrease, truck entries, addFeed and deleteFeed with positive quantities, every
\* godownStock entry has quantity >= 0.
C1_NonNegativeStock ==
  \A i \in DOMAIN godownStock : godownStock[i].quantity >= 0

\* a decrease from a session, while another session's snapshot is out of date,
\* has emptied an entry.
C1_Witness ==
  /\ last.op \in {"decrease", "recordMovement"}
  /\ last.status = "ok"
  /\ \E i \in DOMAIN godownStock : godownStock[i].quantity = 0
  /\ \E s \in Sessions : ~SnapCurrent(s)

\* C2: in every reachable state the godownStock collection holds at most one
\* entry per feedId.
C2_UniqueFeedId ==
  \A i, j \in DOMAIN godownStock :
    godownStock[i].feedId = godownStock[j].feedId => i = j

\* C3 as stated: decrease fails with the insufficient-stock error whenever the
\* ledger holds no entry for the feed or less than qty, and then writes nothing.
C3_DecreaseRejectsOnLedger ==
  [][\A s \in Sessions, f \in FeedIds, q \in ButtonQuantities :
       (/\ f \in SnapFeedIds(s)
        /\ Decrease(s, f, q)
        /\ (FindStock(godownStock, f) = 0 \/ QtyOf(godownStock, f) < q))
       => (last'.status = "insufficient" /\ UNCHANGED store)]_vars

\* C3 amended: decrease fails with the insufficient-stock error whenever the
\* session's snapshot of the ledger holds no entry for the feed or less than qty
\* (so whenever the ledger itself does and the snapshot is current), and then it
\* writes nothing and fetches nothing.
C3_DecreaseRejectsOnSnapshot ==
  [][\A s \in Sessions, f \in FeedIds, q \in ButtonQuantities :
       (/\ f \in SnapFeedIds(s)
        /\ Decrease(s, f, q)
        /\ \/ FindStock(snap[s].godown, f) = 0
           \/ QtyOf(snap[s].godown, f) < q
           \/ SnapCurrent(s) /\ (FindStock(godownStock, f) = 0 \/ QtyOf(godownStock, f) < q))
       => (/\ last'.status = "insufficient"
           /\ last'.writes = <<>>
           /\ UNCHANGED <<store, nextFeedId, nextStockId, snap>>)]_vars

\* a decrease was refused while the ledger holds stock.
C3_Witness ==
  /\ last.op = "decrease"
  /\ last.status = "insufficient"
  /\ \E i \in DOMAIN godownStock : godownStock[i].quantity > 0

\* the entry increase makes for a feed that has none
NewEntry(feedId, qty) == [id |-> nextStockId, feedId |-> feedId, quantity |-> qty]

\* C4 as stated: increase creates an entry with quantity qty when the ledger
\* holds none for the feed, and otherwise sets the entry's quantity to
\* existing + qty.
C4_IncreaseAddsOnLedger ==
  [][\A s \in Sessions, f \in FeedIds, q \in ButtonQuantities :
       (f \in SnapFeedIds(s) /\ Increase(s, f, q))
       => IF FindStock(godownStock, f) = 0
          THEN godownStock' = Append(godownStock, NewEntry(f, q))
          ELSE godownStock' = [godownStock EXCEPT ![FindStock(godownStock, f)].quantity = @ + q]]_vars

\* C4 amended: increase creates an entry with quantity qty when the session's
\* snapshot holds none for the feed, and otherwise sets the entry the snapshot
\* shows to the snapshot's quantity + qty, provided the store still holds that
\* document (else nothing is written); after it the session's snapshot is
\* current.  So from a current snapshot it is additive: none becomes qty, a
\* becomes a + qty.
C4_IncreaseAddsOnSnapshot ==
  [][\A s \in Sessions, f \in FeedIds, q \in ButtonQuantities :
       (f \in SnapFeedIds(s) /\ Increase(s, f, q))
       => LET g == snap[s].godown
              i == FindStock(g, f)
          IN /\ i = 0 => godownStock' = Append(godownStock, NewEntry(f, q))
             /\ (i # 0 /\ HasDoc(godownStock, g[i].id))
                  => godownStock' = UpdateQuantity(godownStock, g[i].id, g[i].quantity + q)
             /\ (i # 0 /\ ~HasDoc(godownStock, g[i].id))
                  => (godownStock' = godownStock /\ last'.status = "storeError")
             /\ last'.status = "ok" => snap'[s].godown = godownStock'
             /\ SnapCurrent(s) =>
                  /\ QtyOf(godownStock', f) = QtyOf(godownStock, f) + q
                  /\ last'.status = "ok"
                  /\ \A f2 \in FeedIds \ {f} : QtyOf(godownStock', f2) = QtyOf(godownStock, f2)]_vars

\* increases have brought a feed's only entry beyond any single quantity.
C4_Witness ==
  /\ last.op = "increase"
  /\ last.status = "ok"
  /\ Len(godownStock) = 1
  /\ godownStock[1].quantity > MaxQty
  /\ godownStock[1].id = 1
  /\ nextFeedId = 2

\* the quantity an item list requests of a feed, 0 when it does not name it
ItemQty(items, feedId) ==
  IF \E k \in DOMAIN items : items[k].feedId = feedId
  THEN items[CHOOSE k \in DOMAIN items : items[k].feedId = feedId].quantity
  ELSE 0

\* the truck entries of session s: the accepted submissions of the form
EntryLists(s) == ItemLists(SnapFeedIds(s), Quantities) \ {<<>>}

\* the item it of a list finds, in the snapshot g, the entry with this id and
\* at least its quantity.
Deducts(g, it, id) ==
  LET j == FindStock(g, it.feedId) IN j # 0 /\ g[j].id = id /\ g[j].quantity >= it.quantity

\* C5 as stated: an outgoing truck entry deducts every item whose feed the
\* ledger holds enough of and leaves the entry of every item it holds too
\* little of (or none), going on after a failure.
C5_OutgoingDeductsOnLedger ==
  [][\A s \in Sessions, p \in 1..MaxTrucks :
       trucks' # trucks =>
         \A items \in EntryLists(s) :
           submitTruckEntry(s, "T1", "outgoing", DestinationText, items, p)
           => \A f \in FeedIds :
                QtyOf(godownStock', f) =
                  IF FindStock(godownStock, f) # 0 /\ QtyOf(godownStock, f) >= ItemQty(items, f)
                  THEN QtyOf(godownStock, f) - ItemQty(items, f)
                  ELSE QtyOf(godownStock, f)]_vars

\* C5 amended: an outgoing truck entry tries every item in listed order against
\* the session's snapshot: an item whose feed the snapshot holds enough of sets
\* the entry the snapshot shows to the snapshot's quantity minus the item's (if
\* the store still holds that document), an item the snapshot holds too little
\* of (or none) is reported and writes nothing, and no failure stops the
\* remaining items.  From a current snapshot every listed feed with enough
\* stock is deducted and every other entry is as before.
C5_OutgoingDeductsOnSnapshot ==
  [][\A s \in Sessions, p \in 1..MaxTrucks :
       trucks' # trucks =>
         \A items \in EntryLists(s) :
           submitTruckEntry(s, "T1", "outgoing", DestinationText, items, p)
           => LET g == snap[s].godown IN
              /\ last'.status = "ok"
              /\ last'.items =
                   [k \in DOMAIN items |->
                      LET j == FindStock(g, items[k].feedId) IN
                      IF j = 0 \/ g[j].quantity < items[k].quantity THEN "insufficient"
                      ELSE IF HasDoc(godownStock, g[j].id) THEN "ok" ELSE "storeError"]
              /\ godownStock' =
                   [i \in DOMAIN godownStock |->
                      IF \E k \in DOMAIN items : Deducts(g, items[k], godownStock[i].id)
                      THEN LET k == CHOOSE k \in DOMAIN items : Deducts(g, items[k], godownStock[i].id)
                           IN [godownStock[i] EXCEPT
                                 !.quantity = g[FindStock(g, items[k].feedId)].quantity - items[k].quantity]
                      ELSE godownStock[i]]
              /\ SnapCurrent(s) =>
                   \A f \in FeedIds :
                     QtyOf(godownStock', f) =
                       IF FindStock(godownStock, f) # 0 /\ QtyOf(godownStock, f) >= ItemQty(items, f)
                       THEN QtyOf(godownStock, f) - ItemQty(items, f)
                       ELSE QtyOf(godownStock, f)]_vars

\* an outgoing truck entry went on to deduct its second item after its first
\* was refused.
C5_Witness ==
  /\ last.op = "recordMovement"
  /\ last.items = <<"insufficient", "ok">>
  /\ \E i \in DOMAIN trucks : trucks[i].type = "outgoing" /\ Len(trucks[i].items) = 2

\* the truck document a truck entry with the destinations text " K, ,V" is to leave
ExpectedMovement(truckNumber, type, items) ==
  [truckNumber |-> truckNumber, type |-> type, destinations |-> << <<"K">>, <<"V">> >>,
   items |-> items, hasStock |-> FALSE, stock |-> <<>>]

\* one truck document, the first write of the handler
OneMovementFirst(truckNumber, type, items, p) ==
  /\ trucks' = InsertAt(trucks, p, ExpectedMovement(truckNumber, type, items))
  /\ last'.writes # <<>>
  /\ last'.writes[1] = "trucks"
  /\ \A n \in 2..Len(last'.writes) : last'.writes[n] # "trucks"

\* one Truck Entry log, the last write of the handler
OneLogLast ==
  /\ logs' = Append(logs, [action |-> "Truck Entry"])
  /\ last'.writes # <<>>
  /\ last'.writes[Len(last'.writes)] = "logs"
  /\ \A n \in 1..(Len(last'.writes) - 1) : last'.writes[n] # "logs"

\* C6 as stated: every accepted truck entry adds exactly one truck document
\* with the requested items before any ledger write, and exactly one Truck
\* Entry log after the ledger writes.
C6_MovementAndLogAlways ==
  [][\A s \in Sessions, p \in 1..MaxTrucks, ty \in {"incoming", "outgoing"} :
       trucks' # trucks =>
         \A items \in EntryLists(s) :
           submitTruckEntry(s, "T1", ty, DestinationText, items, p)
           => OneMovementFirst("T1", ty, items, p) /\ OneLogLast]_vars

\* C6 amended: every accepted truck entry adds exactly one truck document with
\* the requested items before any ledger write.  An outgoing entry then always
\* appends exactly one Truck Entry log after the ledger writes, whatever
\* deductions failed; an incoming entry does so unless an increase is rejected
\* by the store (the entry its snapshot shows was deleted meanwhile), in which
\* case the rest of the items and the log are dropped.
C6_MovementAlwaysLogUnlessAborted ==
  [][\A s \in Sessions, p \in 1..MaxTrucks, ty \in {"incoming", "outgoing"} :
       trucks' # trucks =>
         \A items \in EntryLists(s) :
           submitTruckEntry(s, "T1", ty, DestinationText, items, p)
           => /\ OneMovementFirst("T1", ty, items, p)
              /\ last'.status \in {"ok", "storeError"}
              /\ last'.status = "ok" => OneLogLast
              /\ last'.status = "storeError" =>
                   /\ ty = "incoming"
                   /\ logs' = logs
                   /\ \A n \in DOMAIN last'.writes : last'.writes[n] # "logs"
                   /\ \E k \in DOMAIN items :
                        LET j == FindStock(snap[s].godown, items[k].feedId) IN
                        j # 0 /\ ~HasDoc(godownStock, snap[s].godown[j].id)
              /\ (ty = "outgoing" \/ SnapCurrent(s)) => last'.status = "ok"]_vars

\* an outgoing truck entry left its truck document and its log although every
\* deduction was refused.
C6_Witness ==
  /\ last.op = "recordMovement"
  /\ last.status = "ok"
  /\ last.items # <<>>
  /\ \A k \in DOMAIN last.items : last.items[k] = "insufficient"
  /\ last.writes = <<"trucks", "logs">>
  /\ Len(Movements) = 1
  /\ logs # <<>> /\ logs[Len(logs)].action = "Truck Entry"

\* C7 as stated: after an incoming truck entry the ledger shows, for every
\* feed, its prior quantity (0 without an entry) plus the quantity the list
\* requests of it (0 when not listed).
C7_IncomingAddsOnLedger ==
  [][\A s \in Sessions, p \in 1..MaxTrucks :
       trucks' # trucks =>
         \A items \in EntryLists(s) :
           submitTruckEntry(s, "T1", "incoming", DestinationText, items, p)
           => \A f \in FeedIds :
                QtyOf(godownStock', f) = QtyOf(godownStock, f) + ItemQty(items, f)]_vars

\* the items of a list whose feed has no entry in the snapshot g
Creating(g, items) == SelectSeq(items, LAMBDA it : FindStock(g, it.feedId) = 0)

\* the item it of a list finds, in the snapshot g, the entry with this id.
Adds(g, it, id) ==
  LET j == FindStock(g, it.feedId) IN j # 0 /\ g[j].id = id

\* C7 amended: an incoming truck entry applies increase to the items in listed
\* order against the session's snapshot: a feed the snapshot has an entry for
\* gets that entry set to the snapshot's quantity plus the requested one, a feed
\* it has none for gets a new entry with the requested quantity; if the store
\* rejects an update the handler stops there.  No entry of a feed the list does
\* not name changes.  From a current snapshot every listed feed ends at its
\* prior quantity plus the requested one.
C7_IncomingAddsOnSnapshot ==
  [][\A s \in Sessions, p \in 1..MaxTrucks :
       trucks' # trucks =>
         \A items \in EntryLists(s) :
           submitTruckEntry(s, "T1", "incoming", DestinationText, items, p)
           => LET g == snap[s].godown
                  made == Creating(g, items)
              IN
              /\ last'.status = "ok" =>
                   godownStock' =
                     [i \in DOMAIN godownStock |->
                        IF \E k \in DOMAIN items : Adds(g, items[k], godownStock[i].id)
                        THEN LET k == CHOOSE k \in DOMAIN items : Adds(g, items[k], godownStock[i].id)
                             IN [godownStock[i] EXCEPT
                                   !.quantity = g[FindStock(g, items[k].feedId)].quantity + items[k].quantity]
                        ELSE godownStock[i]]
                     \o [n \in 1..Len(made) |->
                           [id |-> nextStockId + n - 1, feedId |-> made[n].feedId,
                            quantity |-> made[n].quantity]]
              /\ \A i \in DOMAIN godownStock :
                   ItemQty(items, godownStock[i].feedId) = 0
                     => (i \in DOMAIN godownStock' /\ godownStock'[i] = godownStock[i])
              /\ \A i \in DOMAIN godownStock' :
                   i > Len(godownStock) => ItemQty(items, godownStock'[i].feedId) > 0
              /\ SnapCurrent(s) =>
                   /\ last'.status = "ok"
                   /\ \A f \in FeedIds :
                        QtyOf(godownStock', f) = QtyOf(godownStock, f) + ItemQty(items, f)]_vars

\* an incoming truck entry of two items added to the entry of one feed and made
\* the entry of the other.
C7_Witness ==
  /\ last.op = "recordMovement"
  /\ last.status = "ok"
  /\ last.writes = <<"trucks", "godownStock", "godownStock", "logs">>
  /\ \E i \in DOMAIN trucks : trucks[i].type = "incoming" /\ Len(trucks[i].items) = 2
  /\ Len(godownStock) = 2
  /\ \E i \in DOMAIN godownStock : godownStock[i].quantity = MaxLedgerStock

\* the onboard stock persisted for a truck number: that of the first truck
\* document with the number, nothing without one.
OnboardStock(ts, truckNumber) ==
  IF FindTruck(ts, truckNumber) = 0 THEN <<>> ELSE StockOf(ts[FindTruck(ts, truckNumber)])

\* the quantity a stock list holds of a feed, 0 without a line for it
LineQty(stock, feedId) ==
  LET j == FindLine(stock, feedId) IN IF j = 0 THEN 0 ELSE stock[j].quantity

\* the stock list has a line for the item's feed with at least its quantity
Holds(stock, item) ==
  FindLine(stock, item.feedId) # 0 /\ LineQty(stock, item.feedId) >= item.quantity

\* the transfers of the form: a non-empty item list of the session's feeds
TransferLists == UNION {ItemLists(SnapFeedIds(s), Quantities) \ {<<>>} : s \in RegistrySessions}

\* the places a step can have put a new truck document with this number at
Places(truckNumber) ==
  IF Len(trucks') = Len(trucks) THEN {1}
  ELSE {q \in DOMAIN trucks' : trucks'[q].truckNumber = truckNumber}

\* C8: a direct transfer from a registered truck that asks for more of a feed
\* than the truck holds, or for a feed it does not hold, fails; the truck's
\* document is what it was, and no directTransfers document and no log is added.
C8_FailedTransferKeepsSource ==
  [][last'.op = "transfer" =>
       \A src \in TruckNumbers :
         FindTruck(trucks, src) # 0 =>
           LET held == OnboardStock(trucks, src) IN
           \A items \in TransferLists :
             (\E k \in DOMAIN items : ~Holds(held, items[k])) =>
               \A s \in RegistrySessions, dst \in TruckNumbers : \A p \in Places(dst) :
                 transferFromSourceToDest(s, src, dst, items, p)
                 => /\ last'.status = "insufficient"
                    /\ FindTruck(trucks', src) # 0
                    /\ trucks'[FindTruck(trucks', src)] = trucks[FindTruck(trucks, src)]
                    /\ OnboardStock(trucks', src) = held
                    /\ directTransfers' = directTransfers
                    /\ logs' = logs]_vars

\* a transfer was refused for a truck that holds stock.
C8_Witness ==
  /\ last.op = "transfer"
  /\ last.status = "insufficient"
  /\ \E i \in DOMAIN trucks :
       trucks[i].stock # <<>> /\ \A j \in DOMAIN trucks[i].stock : trucks[i].stock[j].quantity > 0
  /\ logs # <<>> /\ logs[Len(logs)].action = "Register Truck Load"

\* C9: a direct transfer that fails for insufficient source stock leaves every
\* collection as it was, also when the destination number had no truck document.
C9_FailedTransferPersistsNothing ==
  [][last'.op = "transfer" =>
       \A s \in RegistrySessions, items \in TransferLists, src \in TruckNumbers,
          dst \in TruckNumbers : \A p \in Places(dst) :
         (transferFromSourceToDest(s, src, dst, items, p) /\ last'.status = "insufficient")
         => UNCHANGED store]_vars

\* C10: a direct transfer between two different truck numbers whose source holds
\* every item takes each item's quantity from the source's line for the feed,
\* adds it to the destination's line (made if there is none), leaves the other
\* lines, and appends one directTransfers document and one Direct Transfer log.
C10_TransferMovesStock ==
  [][last'.op = "transfer" =>
       \A s \in RegistrySessions, items \in TransferLists, src \in TruckNumbers,
          dst \in TruckNumbers : \A p \in Places(dst) :
         (/\ src # dst
          /\ FindTruck(trucks, src) # 0
          /\ \A k \in DOMAIN items : Holds(OnboardStock(trucks, src), items[k])
          /\ transferFromSourceToDest(s, src, dst, items, p))
         => /\ last'.status = "ok"
            /\ FindTruck(trucks', dst) # 0
            /\ Len(trucks') = Len(trucks) + (IF FindTruck(trucks, dst) = 0 THEN 1 ELSE 0)
            /\ \A f \in FeedIds :
                 /\ LineQty(OnboardStock(trucks', src), f)
                      = LineQty(OnboardStock(trucks, src), f) - ItemQty(items, f)
                 /\ LineQty(OnboardStock(trucks', dst), f)
                      = LineQty(OnboardStock(trucks, dst), f) + ItemQty(items, f)
                 /\ FindLine(OnboardStock(trucks', dst), f) # 0
                      <=> (FindLine(OnboardStock(trucks, dst), f) # 0 \/ ItemQty(items, f) > 0)
            /\ directTransfers' =
                 Append(directTransfers,
                        [sourceTruckNumber |-> src, destTruckNumber |-> dst, items |-> items])
            /\ logs' = Append(logs, [action |-> "Direct Transfer"])]_vars

\* a transfer between two trucks has added to a line the destination had.
C10_Witness ==
  /\ last.op = "transfer"
  /\ last.status = "ok"
  /\ directTransfers # <<>>
  /\ LET td == directTransfers[Len(directTransfers)] IN
     /\ td.sourceTruckNumber # td.destTruckNumber
     /\ \E k \in DOMAIN td.items :
          LineQty(OnboardStock(trucks, td.destTruckNumber), td.items[k].feedId) > td.items[k].quantity
  /\ logs[Len(logs)].action = "Direct Transfer"

\* the quantity the items up to the k-th request of the k-th item's feed
RECURSIVE AskedUpTo(_, _, _)
AskedUpTo(items, feedId, k) ==
  IF k = 0 THEN 0
  ELSE AskedUpTo(items, feedId, k - 1) + (IF items[k].feedId = feedId THEN items[k].quantity ELSE 0)

\* the k-th item asks for more than the stock has left after the items before it
Exceeds(stock, items, k) ==
  \/ FindLine(stock, items[k].feedId) = 0
  \/ AskedUpTo(items, items[k].feedId, k) > LineQty(stock, items[k].feedId)

\* C11: a transfer is validated cumulatively, in the order of the items: it goes
\* through exactly when, for every feed, the source holds at least the sum of
\* the quantities the list asks of it; otherwise it fails naming the feed of the
\* first item that asks for more than is left, and the source's stock stays.
C11_CumulativeValidation ==
  [][last'.op = "transfer" =>
       \A s \in RegistrySessions, items \in CallLists, dst \in TruckNumbers :
         \A p \in Places(dst) :
           transferFromSourceToDest(s, "T1", dst, items, p)
           => LET held == OnboardStock(trucks, "T1")
                  bad == {k \in DOMAIN items : Exceeds(held, items, k)}
              IN
              /\ last'.status = "ok" <=> bad = {}
              /\ last'.status = "ok" <=>
                   \A f \in 1..MaxFeeds :
                     AskedUpTo(items, f, Len(items)) > 0 =>
                       (FindLine(held, f) # 0 /\ LineQty(held, f) >= AskedUpTo(items, f, Len(items)))
              /\ bad # {} =>
                   /\ last'.status = "insufficient"
                   /\ last'.items = <<items[First(bad)].feedId>>
                   /\ OnboardStock(trucks', "T1") = held
                   /\ directTransfers' = directTransfers]_vars

\* a transfer whose list names a feed twice went through and emptied the
\* source's line for the feed.
C11_Witness ==
  /\ last.op = "transfer"
  /\ last.status = "ok"
  /\ directTransfers # <<>>
  /\ LET td == directTransfers[Len(directTransfers)] IN
     /\ Len(td.items) = 2
     /\ td.items[1].feedId = td.items[2].feedId
     /\ td.destTruckNumber # td.sourceTruckNumber
     /\ LineQty(OnboardStock(trucks, td.sourceTruckNumber), td.items[1].feedId) = 0
     /\ LineQty(OnboardStock(trucks, td.destTruckNumber), td.items[1].feedId)
          = td.items[1].quantity + td.items[2].quantity

\* C12: registerSourceTruckLoad replaces and never merges.  When a truck document
\* has the number, the first such document's stock becomes the supplied list
\* and no document is added, the other documents staying as they are; when none
\* has it, exactly one document is added, holding the number and the list.
C12_RegisterReplaces ==
  [][last'.op = "registerLoad" =>
       \A s \in RegistrySessions, items \in TransferLists, tn \in TruckNumbers :
         \A p \in Places(tn) :
           registerSourceTruckLoad(s, tn, items, p)
           => LET hits == {i \in DOMAIN trucks : trucks[i].truckNumber = tn} IN
              IF hits # {}
              THEN /\ Len(trucks') = Len(trucks)
                   /\ \A i \in DOMAIN trucks :
                        IF i = First(hits)
                        THEN /\ trucks'[i].truckNumber = tn
                             /\ trucks'[i].hasStock
                             /\ trucks'[i].stock = items
                        ELSE trucks'[i] = trucks[i]
              ELSE /\ Len(trucks') = Len(trucks) + 1
                   /\ \E q \in DOMAIN trucks' :
                        /\ trucks'[q].truckNumber = tn
                        /\ trucks'[q].hasStock
                        /\ trucks'[q].stock = items
                        /\ trucks = SubSeq(trucks', 1, q - 1) \o SubSeq(trucks', q + 1, Len(trucks'))]_vars

\* a load was registered a second time for the one truck of the registry
C12_Witness ==
  /\ last.op = "registerLoad"
  /\ last.status = "ok"
  /\ Len(trucks) = 1
  /\ Len(logs) >= 2
  /\ logs[Len(logs)].action = "Register Truck Load"
  /\ logs[Len(logs) - 1].action = "Register Truck Load"

\* C13: a transfer whose source number no truck document has fails with the
\* source-not-found error and writes nothing: no destination document, no
\* change of any stock, no directTransfers document and no log.
C13_UnknownSourceWritesNothing ==
  [][last'.op = "transfer" =>
       \A s \in RegistrySessions, items \in TransferLists, src \in TruckNumbers, dst \in TruckNumbers :
         (\A i \in DOMAIN trucks : trucks[i].truckNumber # src) =>
           \A p \in Places(dst) :
             transferFromSourceToDest(s, src, dst, items, p)
             => /\ last'.status = "notFound"
                /\ last'.writes = <<>>
                /\ UNCHANGED <<store, nextFeedId, nextStockId, snap>>]_vars

\* a transfer was refused for its source while the registry holds another truck
C13_Witness ==
  /\ last.op = "transfer"
  /\ last.status = "notFound"
  /\ trucks # <<>>

\* a handler returned at its validation: it says so, it has written to no
\* collection and the id counters are what they were.
Untouched ==
  /\ last'.status = "validation"
  /\ last'.writes = <<>>
  /\ UNCHANGED <<store, nextFeedId, nextStockId>>

\* C14: a truck entry or a load with an empty truck number or an empty item
\* list, and a transfer with an empty source, an empty destination or an empty
\* item list, leave every collection of the store unchanged.
C14_ValidationWritesNothing ==
  [][\A s \in RegistrySessions, tn \in NumberFields, p \in 1..(Len(trucks) + 1) :
     \A items \in ItemLists(SnapFeedIds(s), ButtonQuantities) :
       /\ (tn = "" \/ items = <<>>) =>
            /\ \A ty \in {"incoming", "outgoing"} :
                 submitTruckEntry(s, tn, ty, <<>>, items, p) => Untouched
            /\ registerSourceTruckLoad(s, tn, items, p) => Untouched
       /\ \A dst \in NumberFields :
            (tn = "" \/ dst = "" \/ items = <<>>) =>
              (transferFromSourceToDest(s, tn, dst, items, p) => Untouched)]_vars

\* a transfer was turned down at its validation while the store holds a feed,
\* a truck entry and a registered load
C14_Witness ==
  /\ last.op = "transfer"
  /\ last.status = "validation"
  /\ feeds # {}
  /\ Movements # <<>>
  /\ \E i \in DOMAIN trucks : trucks[i].hasStock /\ trucks[i].stock # <<>>

\* C15: deleteFeed cascades.  After handleDeleteFeed(feedId), whatever came
\* before it, the store holds no feed document with the id and no godownStock
\* entry that references it.
C15_DeleteCascades ==
  [][\A s \in Sessions, f \in FeedIds :
       (f \in SnapFeedIds(s) /\ handleDeleteFeed(s, f))
       => /\ \A d \in feeds' : d.id # f
          /\ \A i \in DOMAIN godownStock' : godownStock'[i].feedId # f]_vars

\* C16: the admin gate.  isAdmin implies that the modal is open, in every
\* reachable state.  Unlock grants admin exactly when the typed password is
\* "4312": it grants with that password, and isAdmin turns true only from an
\* open modal holding that password.  Opening the modal, and every step that
\* opens or closes it, leaves isAdmin false.  Every step of handleAddFeed,
\* handleEditFeed or handleDeleteFeed is the step of a session whose isAdmin
\* is true.
C16_AdminGate ==
  /\ [](\A s \in Sessions : admin[s].isAdmin => admin[s].open)
  /\ [][\A s \in Sessions :
          /\ Unlock(s) => (admin'[s].isAdmin <=> admin[s].pass = ADMIN_PASS)
          /\ (~admin[s].isAdmin /\ admin'[s].isAdmin) => (admin[s].open /\ admin[s].pass = ADMIN_PASS)
          /\ (OpenAdmin(s) \/ admin'[s].open # admin[s].open) => ~admin'[s].isAdmin
          /\ \A q \in InitialQuantities :
               handleAddFeed(s, CATEGORIES[1], q)
               => \E u \in Sessions : admin[u].isAdmin /\ handleAddFeed(u, CATEGORIES[1], q)
          /\ \A f \in FeedIds :
               /\ handleDeleteFeed(s, f)
                  => \E u \in Sessions : admin[u].isAdmin /\ handleDeleteFeed(u, f)
               /\ \A c \in EditCategories :
                    handleEditFeed(s, f, c)
                    => \E u \in Sessions : admin[u].isAdmin /\ handleEditFeed(u, f, c)]_vars

\* a session has unlocked the panel and added a feed, while the other session's
\* modal is open and locked with a wrong password typed.
C16_Witness ==
  /\ last.op = "addFeed"
  /\ \E s, u \in Sessions :
       /\ admin[s].open /\ admin[s].isAdmin
       /\ admin[u].open /\ ~admin[u].isAdmin /\ admin[u].pass = "431"

\* the bags of a feed that a sequence of truck or transfer documents lists
RECURSIVE BagsIn(_, _)
BagsIn(docs, feedId) ==
  IF docs = <<>> THEN 0
  ELSE AskedUpTo(Head(docs).items, feedId, Len(Head(docs).items)) + BagsIn(Tail(docs), feedId)

\* C17: two sessions that read the same quantity and each write back their own
\* result lose one of the two updates.  An incoming truck entry sets the ledger
\* entry to the quantity of the session's snapshot plus its own bag, and the
\* writes of a transfer store the stock the session computed from what it read,
\* whatever the store has come to hold since: when the other session has
\* written in between, the final state is not the other's result plus this
\* operation.
C17_WritesOverTheOther ==
  [][\A s \in Sessions :
       /\ \A p \in DOMAIN trucks' :
            submitTruckEntry(s, "M1", "incoming", <<>>, OneBag, p)
            => /\ QtyOf(godownStock', 1) = QtyOf(snap[s].godown, 1) + 1
               /\ QtyOf(godownStock, 1) # QtyOf(snap[s].godown, 1)
                    => QtyOf(godownStock', 1) # QtyOf(godownStock, 1) + 1
       /\ TransferWrite(s)
            => /\ OnboardStock(trucks', "T1") = pending[s].srcStock
               /\ OnboardStock(trucks', "T2") = pending[s].destStock
               /\ LineQty(OnboardStock(trucks, "T1"), 1) # LineQty(pending[s].srcStock, 1) + 1
                    => LineQty(OnboardStock(trucks', "T1"), 1) # LineQty(OnboardStock(trucks, "T1"), 1) - 1]_vars

\* from a ledger entry of one bag, two incoming truck entries of one bag each
\* are recorded and the entry holds two bags; from two bags on T1 and one on T2,
\* two transfers of one bag each are recorded and T1 holds one, T2 two.
C17_Witness ==
  /\ \A s \in Sessions : ~pending[s].active
  /\ Len(Movements) = 2
  /\ BagsIn(Movements, 1) = 2
  /\ QtyOf(godownStock, 1) = 2
  /\ Len(directTransfers) = 2
  /\ BagsIn(directTransfers, 1) = 2
  /\ LineQty(OnboardStock(trucks, "T1"), 1) = 1
  /\ LineQty(OnboardStock(trucks, "T2"), 1) = 2

\* C18: no rollback.  When the destination's updateDoc of a transfer rejects
\* after the source's, the source's document holds the deducted stock, the
\* destination's document is what it was, and no directTransfers document and
\* no log is added; when the addDoc of a new feed's ledger entry rejects, the
\* feed document stays in the store and the ledger is what it was.
C18_NoRollback ==
  [][\A s \in RegistrySessions :
       /\ (TransferWriteFailing(s, 1) /\ pending[s].sourceTruckNumber # pending[s].destTruckNumber)
          => /\ OnboardStock(trucks', pending[s].sourceTruckNumber) = pending[s].srcStock
             /\ OnboardStock(trucks', pending[s].destTruckNumber)
                  = OnboardStock(trucks, pending[s].destTruckNumber)
             /\ directTransfers' = directTransfers
             /\ logs' = logs
       /\ handleAddFeedFailing(s, CATEGORIES[1], 1, 1)
          => /\ \E f \in feeds' : f.id = nextFeedId /\ f \notin feeds
             /\ godownStock' = godownStock]_vars

\* a transfer from T1, which held two bags, to T2, which held one, has stopped
\* after its first write: T1 holds one bag, T2 still one, and no transfer is
\* recorded.
C18_Witness ==
  /\ last.op = "transfer"
  /\ last.status = "storeError"
  /\ last.writes = <<"trucks">>
  /\ directTransfers = <<>>
  /\ LineQty(OnboardStock(trucks, "T1"), 1) = 1
  /\ LineQty(OnboardStock(trucks, "T2"), 1) = 1

\* C19: handleAddFeed adds exactly one feed document, and it adds a ledger
\* entry, for that feed and with quantity initialQty, exactly when initialQty
\* is greater than 0; otherwise the ledger is what it was.
C19_AddFeedSeedsLedger ==
  [][\A s \in Sessions, q \in InitialQuantities :
       handleAddFeed(s, CATEGORIES[1], q)
       => \E f \in feeds' :
            /\ f \notin feeds
            /\ \A g \in feeds : g.id # f.id
            /\ feeds' = feeds \cup {f}
            /\ f.category = CATEGORIES[1]
            /\ IF q > 0
               THEN /\ Len(godownStock') = Len(godownStock) + 1
                    /\ SubSeq(godownStock', 1, Len(godownStock)) = godownStock
                    /\ godownStock'[Len(godownStock')].feedId = f.id
                    /\ godownStock'[Len(godownStock')].quantity = q
               ELSE godownStock' = godownStock]_vars

\* a second feed was added with one bag, after a first one added without: the
\* ledger holds the second feed's entry alone.
C19_Witness ==
  /\ last.op = "addFeed"
  /\ last.writes = <<"feeds", "godownStock">>
  /\ Cardinality(feeds) = 2
  /\ Len(godownStock) = 1
  /\ godownStock[1].feedId = nextFeedId - 1
  /\ godownStock[1].quantity = 1

\* the sum of the quantities of the entries of g at the indices idx
RECURSIVE SumQty(_, _)
SumQty(g, idx) ==
  IF idx = {} THEN 0
  ELSE LET i == CHOOSE j \in idx : TRUE IN g[i].quantity + SumQty(g, idx \ {i})

\* the entries of g whose feed is among fs and has the category
EntriesOf(fs, g, category) ==
  {i \in DOMAIN g : \E f \in fs : f.id = g[i].feedId /\ f.category = category}

\* C20: on every session's dashboard, the total of a category is the sum of the
\* quantities of the ledger entries whose feed exists and has the category (so
\* a feed without an entry adds nothing), and the grand total is the sum of the
\* quantities of all ledger entries, whatever their feed.
C20_DashboardTotals ==
  \A s \in Sessions :
    /\ \A c \in CategorySet :
         categoryCounts(snap[s].feeds, snap[s].godown)[c]
           = SumQty(snap[s].godown, EntriesOf(snap[s].feeds, snap[s].godown, c))
    /\ totalBags(snap[s].godown) = SumQty(snap[s].godown, DOMAIN snap[s].godown)

\* a dashboard with two entries of one listed category, whose total is their
\* sum; and a dashboard whose grand total exceeds the totals of the categories,
\* an entry's feed being gone or of a category that is not listed.
C20_Witness ==
  /\ \E s \in Sessions, c \in CategorySet :
       /\ Cardinality(EntriesOf(snap[s].feeds, snap[s].godown, c)) = 2
       /\ categoryCounts(snap[s].feeds, snap[s].godown)[c] = 3
  /\ \E s \in Sessions :
       /\ totalBags(snap[s].godown) = 2
       /\ \A c \in CategorySet : categoryCounts(snap[s].feeds, snap[s].godown)[c] = 0

\* C21: a direct transfer bypasses the warehouse: registerSourceTruckLoad and
\* transferFromSourceToDest, whether they go through or not, leave every
\* godownStock entry and every feed document as they were.
C21_TransferBypassesLedger ==
  [][\A s \in RegistrySessions, tn \in NumberFields, p \in 1..(Len(trucks) + 1) :
     \A items \in ItemLists(SnapFeedIds(s), ButtonQuantities) :
       /\ registerSourceTruckLoad(s, tn, items, p) => UNCHANGED <<feeds, godownStock>>
       /\ \A dst \in NumberFields :
            transferFromSourceToDest(s, tn, dst, items, p) => UNCHANGED <<feeds, godownStock>>]_vars

\* a transfer went through while the warehouse ledger holds a bag
C21_Witness ==
  /\ last.op = "transfer"
  /\ last.status = "ok"
  /\ directTransfers # <<>>
  /\ feeds # {}
  /\ \E i \in DOMAIN godownStock : godownStock[i].quantity > 0

\* the first sequence is the beginning of the second
IsPrefix(a, b) == Len(a) <= Len(b) /\ SubSeq(b, 1, Len(a)) = a

\* the transfers that have run to their end: the log is their last write
DirectLogs(ls) == Len(SelectSeq(ls, LAMBDA d : d.action = "Direct Transfer"))

\* C22 as stated: directTransfers and logs only grow at their end, and the
\* number of directTransfers documents is always the number of transfers that
\* have completed.
C22_AuditCountsTransfers ==
  /\ [](Len(directTransfers) = DirectLogs(logs))
  /\ [][IsPrefix(directTransfers, directTransfers') /\ IsPrefix(logs, logs')]_vars

\* C22 amended: directTransfers and logs only grow at their end; there are never
\* fewer directTransfers documents than completed transfers; and a step adds a
\* directTransfers document exactly when it completes a transfer, unless it is
\* a transfer one of whose store calls rejects (which can leave the document
\* without the transfer having completed).
C22_AuditAppendOnly ==
  /\ [](Len(directTransfers) >= DirectLogs(logs))
  /\ [][/\ IsPrefix(directTransfers, directTransfers')
        /\ IsPrefix(logs, logs')
        /\ (\A s \in RegistrySessions, k \in 0..3 : ~TransferWriteFailing(s, k))
             => Len(directTransfers') - Len(directTransfers) = DirectLogs(logs') - DirectLogs(logs)]_vars

\* two transfers have completed, each with its document and its log, after the
\* loads were logged
C22_Witness ==
  /\ last.op = "transfer"
  /\ last.status = "ok"
  /\ Len(directTransfers) = 2
  /\ DirectLogs(logs) = 2
  /\ Len(logs) > 2

\* what submitTruckEntry has recorded of a truck entry
Entry(d) ==
  [truckNumber |-> d.truckNumber, type |-> d.type, destinations |-> d.destinations, items |-> d.items]

\* the truck entries of ts are still recorded in us, which holds the documents
\* of ts in their order and at most one more.
EntriesKept(ts, us) ==
  \/ /\ Len(us) = Len(ts)
     /\ \A i \in DOMAIN ts : IsMovement(ts[i]) => Entry(us[i]) = Entry(ts[i])
  \/ /\ Len(us) = Len(ts) + 1
     /\ \E q \in DOMAIN us :
          \A i \in DOMAIN ts :
            IsMovement(ts[i]) => Entry(us[IF i < q THEN i ELSE i + 1]) = Entry(ts[i])

\* C23: a truck entry's document keeps its truck number, type, destinations and
\* items through every later step, also through a load or a transfer for its
\* truck number that takes the document as the first match and writes a stock
\* list into it.
C23_MovementImmutable ==
  [][EntriesKept(trucks, trucks')]_vars

\* a load was registered for the truck number of a truck entry and a transfer
\* made from it: the entry's document carries a stock list, and its type,
\* destinations and items.
C23_Witness ==
  /\ last.op = "transfer"
  /\ last.status = "ok"
  /\ \E i \in DOMAIN trucks :
       /\ trucks[i].type = "incoming"
       /\ trucks[i].hasStock
       /\ trucks[i].stock # <<>>
       /\ trucks[i].items # <<>>
       /\ Len(trucks[i].destinations) = 2

\* the bags of a feed on board of all the trucks
RECURSIVE OnBoard(_, _)
OnBoard(ts, feedId) ==
  IF ts = <<>> THEN 0
  ELSE AskedUpTo(StockOf(Head(ts)), feedId, Len(StockOf(Head(ts)))) + OnBoard(Tail(ts), feedId)

\* C24: a transfer that goes through conserves the stock on board: for every
\* feed, the bags on all the trucks together are as many after it as before,
\* whatever the source and the destination, the same truck number included.
C24_TransferConserves ==
  [][last'.op = "transfer" =>
       \A s \in RegistrySessions, items \in TransferLists, src \in TruckNumbers, dst \in TruckNumbers :
         \A p \in Places(dst) :
           (transferFromSourceToDest(s, src, dst, items, p) /\ last'.status = "ok")
           => \A f \in FeedIds : OnBoard(trucks', f) = OnBoard(trucks, f)]_vars

\* the sum of the counts of the categories cats
RECURSIVE SumCounts(_, _)
SumCounts(counts, cats) ==
  IF cats = {} THEN 0
  ELSE LET c == CHOOSE x \in cats : TRUE IN counts[c] + SumCounts(counts, cats \ {c})

\* C25: on every session's dashboard, in every reachable state, the grand total
\* is the sum of the counts of the three categories: every ledger entry is that of
\* a feed that exists and has one of the three categories.
C25_TotalIsSumOfCategories ==
  \A s \in Sessions :
    /\ totalBags(snap[s].godown) = SumCounts(categoryCounts(snap[s].feeds, snap[s].godown), CategorySet)
    /\ \A i \in DOMAIN snap[s].godown :
         \E f \in snap[s].feeds : f.id = snap[s].godown[i].feedId /\ f.category \in CategorySet

\* C26: in every state reached by loads and transfers of positive quantities,
\* every line of every truck's stock list has a quantity of 0 or more.
C26_OnboardNonNegative ==
  \A i \in DOMAIN trucks : \A j \in DOMAIN StockOf(trucks[i]) : StockOf(trucks[i])[j].quantity >= 0

\* a transfer to another truck has taken all the bags of a line: the source
\* keeps that line with 0 bags.
C26_Witness ==
  /\ last.op = "transfer"
  /\ last.status = "ok"
  /\ directTransfers # <<>>
  /\ LET td == directTransfers[Len(directTransfers)] IN
     /\ td.sourceTruckNumber # td.destTruckNumber
     /\ \E i \in DOMAIN trucks : \E j \in DOMAIN StockOf(trucks[i]) :
          /\ trucks[i].truckNumber = td.sourceTruckNumber
          /\ StockOf(trucks[i])[j].quantity = 0

====
